---------------------------- MODULE Spec2Model ----------------------------
(***************************************************************************)
(* ClipForge backend: VOD URL -> audio -> transcription -> clip detection. *)
(*                                                                         *)
(* Two implementations of the service live in the repository:              *)
(*   impl = "url"   src/app.py            (direct-URL transcription, own   *)
(*                                         submit / poll loop)             *)
(*   impl = "file"  src/unnamed/part_000  (local temp file, SDK            *)
(*                                         transcription)                  *)
(*                                                                         *)
(* Specifications:                                                         *)
(*   SpecPoll  one call of poll_transcription(transcript_id, timeout)      *)
(*   SpecPollFair  the same, with the steps of the call weakly fair        *)
(*   SpecSeg   the segmentation loop of identify_clips on bounded inputs   *)
(*   Spec      one request to POST /api/extract-clips, either              *)
(*             implementation, or to POST /api/transcribe or               *)
(*             POST /api/get-audio-url of src/app.py                       *)
(*                                                                         *)
(* Strings are sequences of tokens (a character, or a run of characters    *)
(* that the code never splits); SP is the space.  Time is in whole seconds.*)
(***************************************************************************)
EXTENDS Integers, Sequences, FiniteSets, TLC

VARIABLES
    \* ---- poll_transcription (src/app.py:83-103)
    pollPc,             \* "idle" | "guard" | "sleep" | "returned" | "raised"
    timeout,            \* the timeout argument
    elapsed,            \* time.time() - start_time, while the call is active
    lastResponse,       \* the response of the latest status request
    pollResult,         \* the value returned (data), or NoData
    pollError,          \* the exception raised, or NoError
    \* ---- observation of the poll loop's I/O
    statusRequests,     \* GET /v2/transcript/{id} issued
    nonTerminal,        \* of these, answered 200 with queued / processing
    sleeps,             \* time.sleep(5) calls
    sleptSinceRequest,  \* a sleep happened after the latest status request
    sleptFor,           \* seconds slept since the latest status request
    requestAtCeiling,   \* a status request was issued with elapsed >= timeout
    afterTerminal,      \* a request or sleep followed a completed/error answer
    \* ---- the segmentation loop of identify_clips (src/app.py:115-136)
    segPc,              \* "idle" | "loop" | "done"
    words_with_timestamps,
    i,                  \* index of the next word of the for loop
    timestamped_sections,
    current_section,
    section_start,
    \* ---- one request to POST /api/extract-clips
    impl,               \* "url" (src/app.py) | "file" (src/unnamed/part_000)
    pc,                 \* "idle" | "start" | "resolve" | "submit" | "poll" |
                        \* "segment" | "transcribe" | "identify" | "done"
    request,            \* the route, and vod_url, num_clips of the JSON body
    audio_url,
    audio_path,
    transcript_id,
    transcript,         \* transcript_data / transcript_result
    clips,
    response,           \* the HTTP response: code and JSON body
    tempFile,           \* "none" | "exists" | "removed"
    \* ---- observation of the run
    stages,             \* the stages started, in order
    resolveCalls,       \* audio extractions started
    submitRequests,     \* transcription jobs submitted
    genRequests,        \* requests to the text-generation service
    genAnswer,          \* the answer of the text-generation service
    failedStage,        \* the stage whose operation failed, or "none"
    requestsAtFailure   \* the requests issued up to that failure

pollVars == << pollPc, timeout, elapsed, lastResponse, pollResult, pollError,
               statusRequests, nonTerminal, sleeps, sleptSinceRequest,
               sleptFor, requestAtCeiling, afterTerminal >>

segVars == << segPc, words_with_timestamps, i, timestamped_sections,
              current_section, section_start >>

pipeVars == << impl, pc, request, audio_url, audio_path, transcript_id,
               transcript, clips, response, tempFile, stages, resolveCalls,
               submitRequests, genRequests, genAnswer, failedStage,
               requestsAtFailure >>

vars == << pollVars, segVars, pipeVars >>

-----------------------------------------------------------------------------
(* Program constants *)

PollInterval == 5
DefaultTimeout == 600
WindowSize == 50
PreviewLen == 500
DefaultNumClips == 5

(* Bounds of the model *)

\* a status request takes 0..MaxLatency seconds
MaxLatency == 2
\* word sequences of 0..MaxWords words
MaxWords == 120
\* the text-generation service answers arrays of 0..MaxClips objects
MaxClips == 2

SP == " "

Min(a, b) == IF a < b THEN a ELSE b

-----------------------------------------------------------------------------
(* Values *)

NoData == [kind |-> "none", text |-> << >>, words |-> << >>]
NoError == [cls |-> "none", msg |-> << >>]

\* a text of n characters, each distinct
TextOf(n) == [k \in 1..n |-> k]

\* A word list of n words as the transcription service returns it: word k
\* has a text of its own (the numeral of k), starts gap after the previous
\* word's end and lasts dur; the first starts at s0.
MkWords(n, s0, gap, dur) ==
    [k \in 1..n |-> [text  |-> << ToString(k) >>,
                     start |-> s0 + (k - 1) * (gap + dur),
                     end   |-> s0 + (k - 1) * (gap + dur) + dur]]

\* transcript payloads of a completed job, by the lengths of text and words:
\* no text, no words, a short transcript, and one longer than the preview and
\* than one window of words
PayloadShapes ==
    { << 0, 2 >>, << 3, 0 >>, << 3, 2 >>, << PreviewLen + 1, WindowSize + 1 >> }
Payloads ==
    { [kind |-> "transcript", text |-> TextOf(sh[1]),
       words |-> MkWords(sh[2], 100, 20, 300)] : sh \in PayloadShapes }

\* error field of a status answer: a message, or absent
UpstreamErrors == { "bad audio", "absent" }

\* What one GET /v2/transcript/{id} can produce: a network fault (requests.get
\* raises), a non-2xx answer (raise_for_status raises), or a 200 answer with
\* a status.
StatusResponses ==
    { [code |-> 0,   status |-> "", error |-> "absent", data |-> NoData],
      [code |-> 500, status |-> "", error |-> "absent", data |-> NoData],
      [code |-> 200, status |-> "queued", error |-> "absent", data |-> NoData],
      [code |-> 200, status |-> "processing", error |-> "absent", data |-> NoData] }
    \cup { [code |-> 200, status |-> "error", error |-> e, data |-> NoData] :
             e \in UpstreamErrors }
    \cup { [code |-> 200, status |-> "completed", error |-> "absent", data |-> p] :
             p \in Payloads }

NoResponse == [code |-> -1, status |-> "", error |-> "absent", data |-> NoData]

\* the exceptions of poll_transcription, as class and message
HTTPError(r) == [cls |-> "RequestException", msg |-> << "http", ToString(r.code) >>]
\* (variant: the upstream message is left out of the exception)
TranscriptionFailedNoMessage(r) ==
    [cls |-> "Exception", msg |-> << "Transcription failed: ", "Unknown error" >>]
TranscriptionFailed(r) ==
    [cls |-> "Exception",
     msg |-> << "Transcription failed: ",
                IF r.error = "absent" THEN "Unknown error" ELSE r.error >>]
TranscriptionTimedOut ==
    [cls |-> "Exception", msg |-> << "Transcription timed out after 10 minutes." >>]

-----------------------------------------------------------------------------
(* poll_transcription *)

\* (variant: the ceiling itself still polls)
PollGuardInclusive(el, to) == el <= to
\* while time.time() - start_time < timeout
PollGuard(el, to) == el < to

\* (variant: a completed answer is treated like processing)
PollOutcomeIgnoresCompleted(r) ==
    IF r.code # 200 THEN "raise_http"
    ELSE IF r.status = "error" THEN "raise_failed"
    ELSE "sleep"

\* (variant: a failed status request is tried again after the sleep)
PollOutcomeRetriesFailedCheck(r) ==
    IF r.code = 200 /\ r.status = "completed" THEN "return"
    ELSE IF r.code = 200 /\ r.status = "error" THEN "raise_failed"
    ELSE "sleep"

\* what the loop body does with one answer
PollOutcome(r) ==
    IF r.code # 200 THEN "raise_http"
    ELSE IF r.status = "completed" THEN "return"
    ELSE IF r.status = "error" THEN "raise_failed"
    ELSE "sleep"

IsTerminal(r) == r.code = 200 /\ r.status \in {"completed", "error"}

\* the call is over: it returned or raised
PollEnded == pollPc \in {"returned", "raised"}

PollInitValues ==
    /\ pollPc = "idle"
    /\ timeout = DefaultTimeout
    /\ elapsed = 0
    /\ lastResponse = NoResponse
    /\ pollResult = NoData
    /\ pollError = NoError
    /\ statusRequests = 0
    /\ nonTerminal = 0
    /\ sleeps = 0
    /\ sleptSinceRequest = FALSE
    /\ sleptFor = 0
    /\ requestAtCeiling = FALSE
    /\ afterTerminal = FALSE

\* entry: start_time = time.time()
PollEnter(to) ==
    /\ pollPc = "idle"
    /\ pollPc' = "guard"
    /\ timeout' = to
    /\ elapsed' = 0
    /\ UNCHANGED << lastResponse, pollResult, pollError, statusRequests,
                    nonTerminal, sleeps, sleptSinceRequest, sleptFor,
                    requestAtCeiling, afterTerminal >>

\* one pass of the loop body up to the sleep: the guard holds, the status
\* request is issued and answered after d seconds, the answer is handled
PollCheck ==
    /\ pollPc = "guard"
    /\ PollGuard(elapsed, timeout)
    /\ \E r \in StatusResponses, d \in 0..MaxLatency :
         LET out == PollOutcome(r) IN
         /\ statusRequests' = statusRequests + 1
         /\ nonTerminal' = IF r.code = 200 /\ ~IsTerminal(r)
                           THEN nonTerminal + 1 ELSE nonTerminal
         /\ requestAtCeiling' = (requestAtCeiling \/ elapsed >= timeout)
         /\ afterTerminal' = (afterTerminal \/ IsTerminal(lastResponse))
         /\ sleptSinceRequest' = FALSE
         /\ sleptFor' = 0
         /\ lastResponse' = r
         /\ pollPc' = CASE out = "return" -> "returned"
                        [] out = "sleep" -> "sleep"
                        [] OTHER -> "raised"
         /\ pollResult' = IF out = "return" THEN r.data ELSE pollResult
         /\ pollError' = CASE out = "raise_http" -> HTTPError(r)
                           [] out = "raise_failed" -> TranscriptionFailed(r)
                           [] OTHER -> pollError
         \* the locals die with the call
         /\ elapsed' = IF out = "sleep" THEN elapsed + d ELSE 0
    /\ UNCHANGED << timeout, sleeps >>

\* (variant: the suspension is one second shorter)
SleepTimeShort == PollInterval - 1

\* the argument of time.sleep
SleepTime == PollInterval

\* time.sleep(5)
PollSleep ==
    /\ pollPc = "sleep"
    /\ pollPc' = "guard"
    /\ elapsed' = elapsed + SleepTime
    /\ sleeps' = sleeps + 1
    /\ sleptSinceRequest' = TRUE
    /\ sleptFor' = sleptFor + SleepTime
    /\ afterTerminal' = (afterTerminal \/ IsTerminal(lastResponse))
    /\ UNCHANGED << timeout, lastResponse, pollResult, pollError,
                    statusRequests, nonTerminal, requestAtCeiling >>

\* the guard fails: raise Exception("Transcription timed out after 10 minutes.")
PollTimeout ==
    /\ pollPc = "guard"
    /\ ~PollGuard(elapsed, timeout)
    /\ pollPc' = "raised"
    /\ pollError' = TranscriptionTimedOut
    /\ elapsed' = 0
    /\ UNCHANGED << timeout, lastResponse, pollResult, statusRequests,
                    nonTerminal, sleeps, sleptSinceRequest, sleptFor,
                    requestAtCeiling, afterTerminal >>

poll_transcription == PollCheck \/ PollSleep \/ PollTimeout

-----------------------------------------------------------------------------
(* Strings *)

\* s.strip(): leading and trailing spaces removed
RECURSIVE LStrip(_)
LStrip(s) == IF s # << >> /\ Head(s) = SP THEN LStrip(Tail(s)) ELSE s

RECURSIVE RStrip(_)
RStrip(s) ==
    IF s # << >> /\ s[Len(s)] = SP THEN RStrip(SubSeq(s, 1, Len(s) - 1)) ELSE s

Strip(s) == RStrip(LStrip(s))

\* sep.join(parts), by halves
RECURSIVE Join(_, _)
Join(parts, sep) ==
    IF parts = << >> THEN << >>
    ELSE IF Len(parts) = 1 THEN parts[1]
    ELSE LET h == Len(parts) \div 2 IN
         Join(SubSeq(parts, 1, h), sep) \o sep
           \o Join(SubSeq(parts, h + 1, Len(parts)), sep)

\* len(s.split()): the number of maximal runs of non-space characters of s
WordCount(s) ==
    Cardinality({ k \in 1..Len(s) : s[k] # SP /\ (k = 1 \/ s[k - 1] = SP) })

-----------------------------------------------------------------------------
(* identify_clips, lines 115-136: the timestamped sections *)

\* the loop's variables before the first word
SegStart == [sections |-> << >>, current_section |-> << >>, section_start |-> 0]

\* (variant: the test without "and i > 0")
SectionBoundaryAtZero(ix) == ix % WindowSize = 0
\* if i % 50 == 0 and i > 0
SectionBoundary(ix) == ix % WindowSize = 0 /\ ix > 0

\* (variant: the word at a boundary is not added to the new section)
SegStepDropsBoundaryWord(st, ix, word) ==
    IF SectionBoundary(ix)
    THEN [sections |-> Append(st.sections,
                              [start_ms |-> st.section_start,
                               end_ms   |-> word.end,
                               text     |-> Strip(st.current_section)]),
          current_section |-> << >>,
          section_start |-> word.start]
    ELSE [st EXCEPT !.current_section = st.current_section \o word.text \o << SP >>]
\* the loop body for the word at 0-based index ix
SegStep(st, ix, word) ==
    LET flushed ==
          IF SectionBoundary(ix)
          THEN [sections |-> Append(st.sections,
                                    [start_ms |-> st.section_start,
                                     end_ms   |-> word.end,
                                     text     |-> Strip(st.current_section)]),
                current_section |-> << >>,
                section_start |-> word.start]
          ELSE st
    IN [flushed EXCEPT !.current_section =
                          flushed.current_section \o word.text \o << SP >>]

\* "Add remaining"
SegFinish(st, words) ==
    IF Strip(st.current_section) # << >>
    THEN Append(st.sections,
                [start_ms |-> st.section_start,
                 end_ms   |-> IF words # << >> THEN words[Len(words)].end ELSE 0,
                 text     |-> Strip(st.current_section)])
    ELSE st.sections

SegInitValues ==
    /\ segPc = "idle"
    /\ words_with_timestamps = << >>
    /\ i = 0
    /\ timestamped_sections = << >>
    /\ current_section = << >>
    /\ section_start = 0

\* entry with the word list; lines 115-117
SegEnter(words) ==
    /\ segPc' = "loop"
    /\ words_with_timestamps' = words
    /\ i' = 0
    /\ timestamped_sections' = SegStart.sections
    /\ current_section' = SegStart.current_section
    /\ section_start' = SegStart.section_start

\* one pass of "for i, word in enumerate(words_with_timestamps)"
SegIter ==
    /\ segPc = "loop"
    /\ i < Len(words_with_timestamps)
    /\ LET st == SegStep([sections |-> timestamped_sections,
                          current_section |-> current_section,
                          section_start |-> section_start],
                         i, words_with_timestamps[i + 1])
       IN /\ timestamped_sections' = st.sections
          /\ current_section' = st.current_section
          /\ section_start' = st.section_start
    /\ i' = i + 1
    /\ UNCHANGED << segPc, words_with_timestamps >>

\* the loop is over: lines 130-136
SegEnd ==
    /\ segPc = "loop"
    /\ i = Len(words_with_timestamps)
    /\ timestamped_sections' =
         SegFinish([sections |-> timestamped_sections,
                    current_section |-> current_section,
                    section_start |-> section_start],
                   words_with_timestamps)
    /\ segPc' = "done"
    /\ UNCHANGED << words_with_timestamps, i, current_section, section_start >>

-----------------------------------------------------------------------------
(* The text-generation answer: content, fence stripping, json.loads *)

MaxTitleLen == 60

\* an element of the model's JSON array, by the ClipCandidate fields
Clip(t, s, e, v) ==
    [title |-> TextOf(t), start_ms |-> s, end_ms |-> e, virality_score |-> v]

\* the JSON objects the model may put in its answer, each one token of the
\* content: two well-formed candidates, one with virality_score 11, one with
\* end_ms = start_ms
ObjectTokens == {"A", "B", "X11", "XR"}

ClipOf(tok) ==
    CASE tok = "A"   -> Clip(1, 1000, 5000, 9)
      [] tok = "B"   -> Clip(2, 6000, 9000, 3)
      [] tok = "X11" -> Clip(1, 1000, 5000, 11)
      [] tok = "XR"  -> Clip(1, 5000, 5000, 5)

\* sequences over S of length 0..n
SeqsUpTo(S, n) == UNION { [1..k -> S] : k \in 0..n }

\* the text of a JSON array of the objects toks
ArrayText(toks) ==
    << "[" >> \o Join([k \in 1..Len(toks) |-> << toks[k] >>], << "," >>) \o << "]" >>

\* what the model may answer inside the fences: an array of up to MaxClips
\* objects, prose, or a lone object
Bodies ==
    { ArrayText(toks) : toks \in SeqsUpTo(ObjectTokens, MaxClips) }
      \cup { << "Sorry,", SP, "no", SP, "clips" >>, << "A" >> }

\* the code fence marker: three backquotes, one token
FENCE == "fence"

\* the same body bare, in json code fences, in plain code fences, and fenced
\* with whitespace around
Wrapped(b) ==
    { b,
      << FENCE, "json", SP >> \o b \o << SP, FENCE >>,
      << FENCE, SP >> \o b \o << SP, FENCE >>,
      << SP, FENCE, "json", SP >> \o b \o << SP, FENCE, SP >> }

Contents == UNION { Wrapped(b) : b \in Bodies }

StartsWith(s, pre) == Len(s) >= Len(pre) /\ SubSeq(s, 1, Len(pre)) = pre
EndsWith(s, suf) ==
    Len(s) >= Len(suf) /\ SubSeq(s, Len(s) - Len(suf) + 1, Len(s)) = suf
DropFirst(s, n) == SubSeq(s, n + 1, Len(s))
DropLast(s, n) == SubSeq(s, 1, Len(s) - n)

\* (variant: only the plain fence marker is removed, the json tag stays)
StripFencesPlainOnly(content) ==
    LET c1 == Strip(content)
        c3 == IF StartsWith(c1, << FENCE >>) THEN DropFirst(c1, 1) ELSE c1
        c4 == IF EndsWith(c3, << FENCE >>) THEN DropLast(c3, 1) ELSE c3
    IN Strip(c4)

\* "Clean up the response (remove markdown code blocks if present)"
StripFences(content) ==
    LET c1 == Strip(content)
        c2 == IF StartsWith(c1, << FENCE, "json" >>) THEN DropFirst(c1, 2) ELSE c1
        c3 == IF StartsWith(c2, << FENCE >>) THEN DropFirst(c2, 1) ELSE c2
        c4 == IF EndsWith(c3, << FENCE >>) THEN DropLast(c3, 1) ELSE c3
    IN Strip(c4)

\* the tokens of a JSON text: whitespace between tokens does not count
JsonTokens(s) == SelectSeq(s, LAMBDA c : c # SP)

IsArrayText(u) ==
    /\ Len(u) >= 2
    /\ u[1] = "[" /\ u[Len(u)] = "]"
    /\ Len(u) = 2 \/ Len(u) % 2 = 1
    /\ \A k \in 2..(Len(u) - 1) :
         IF k % 2 = 0 THEN u[k] \in ObjectTokens ELSE u[k] = ","

\* json.loads(s): a list, another JSON value (here an object), or
\* JSONDecodeError
JsonLoads(s) ==
    LET u == JsonTokens(s) IN
    IF IsArrayText(u)
    THEN [kind |-> "array",
          items |-> [k \in 1..((Len(u) - 1) \div 2) |-> ClipOf(u[2 * k])]]
    ELSE IF Len(u) = 1 /\ u[1] \in ObjectTokens
    THEN [kind |-> "object", items |-> << ClipOf(u[1]) >>]
    ELSE [kind |-> "error", items |-> << >>]

EmptyList == [kind |-> "array", items |-> << >>]
NoClips == [kind |-> "none", items |-> << >>]

\* what one POST to the text-generation service can produce: a transport or
\* HTTP failure, or a 200 answer with a content
GenResponses ==
    { [code |-> 0, content |-> << >>], [code |-> 500, content |-> << >>] }
      \cup { [code |-> 200, content |-> c] : c \in Contents }

JSONDecodeError == [cls |-> "JSONDecodeError", msg |-> << "Expecting value" >>]

-----------------------------------------------------------------------------
(* POST /api/extract-clips *)

\* request bodies: vod_url missing (None), empty or given; num_clips missing
\* (the default) or given
VodUrls == {"None", "", "https://vod/1"}

\* the routes of src/app.py that take a vod_url
Endpoints == {"extract-clips", "transcribe", "get-audio-url"}

\* the requests: the route and the fields of the JSON body the handler reads
\* (vod_url "None": the key is missing or null; num_clips is read by
\* extract-clips only, 5 when missing)
Requests ==
    { [endpoint |-> "extract-clips", vod_url |-> u, num_clips |-> n] :
        u \in VodUrls, n \in {DefaultNumClips, 1} }
      \cup { [endpoint |-> e, vod_url |-> u, num_clips |-> DefaultNumClips] :
                e \in Endpoints \ {"extract-clips"}, u \in VodUrls }

\* (variant: only a missing or null vod_url is refused)
FalsyOnlyNone(x) == x = "None"

\* the truth test of Python (not x) on a request field
Falsy(x) == x \in {"None", ""}

Impls == {"url", "file"}

NoResponseYet == [code |-> 0, body |-> [status |-> "none"]]

\* jsonify({"status": "error", "message": ...}), code
ErrorResponse(code, msg) ==
    [code |-> code, body |-> [status |-> "error", message |-> msg]]

\* except Exception as e: ... 500
Caught(e) == ErrorResponse(500, e.msg)

ValidationFailed == ErrorResponse(400, << "vod_url is required" >>)

EmptyTranscript ==
    ErrorResponse(400, << "Transcription returned empty. The VOD may not have clear audio." >>)

\* transcript_text[:500]
Preview(text) == SubSeq(text, 1, Min(PreviewLen, Len(text)))

\* the success response of src/app.py
SuccessUrl(req, audio, id, text, cl) ==
    [code |-> 200,
     body |-> [status |-> "success", vod_url |-> req.vod_url, audio_url |-> audio,
               transcript_id |-> id, transcript_text |-> Preview(text),
               clips |-> cl]]

\* the success response of /api/transcribe
SuccessTranscribe(id, data) ==
    [code |-> 200,
     body |-> [status |-> "success", transcript_id |-> id, text |-> data.text,
               words |-> data.words]]

\* the success response of /api/get-audio-url
SuccessAudioUrl(req, audio) ==
    [code |-> 200,
     body |-> [status |-> "success", vod_url |-> req.vod_url, audio_url |-> audio]]

\* the success response of part_000
SuccessFile(req, audio, id, text, cl) ==
    [code |-> 200,
     body |-> [status |-> "success", vod_url |-> req.vod_url, audio_url |-> audio,
               transcript_id |-> id, transcript_text |-> text, clips |-> cl]]

ResolutionFailed ==
    [cls |-> "Exception",
     msg |-> << "Could not extract audio URL from the provided VOD link." >>]

\* the stages of a run, in the order the handler starts them
StageOrder(im) ==
    IF im = "url"
    THEN << "Resolving", "Transcribing", "Segmenting", "Identifying" >>
    ELSE << "Resolving", "Transcribing", "Identifying" >>

PipeInitValues ==
    /\ impl = "url"
    /\ pc = "idle"
    /\ request = [endpoint |-> "extract-clips", vod_url |-> "None",
                  num_clips |-> DefaultNumClips]
    /\ audio_url = "None"
    /\ audio_path = "None"
    /\ transcript_id = "None"
    /\ transcript = NoData
    /\ clips = NoClips
    /\ response = NoResponseYet
    /\ tempFile = "none"
    /\ stages = << >>
    /\ resolveCalls = 0
    /\ submitRequests = 0
    /\ genRequests = 0
    /\ genAnswer = [code |-> -1, content |-> << >>]
    /\ failedStage = "none"
    /\ requestsAtFailure = 0

Requested == resolveCalls + submitRequests + statusRequests + genRequests

\* a stage failed: its operation raised
Fail(stage, n) ==
    /\ failedStage' = stage
    /\ requestsAtFailure' = n

NoFail == UNCHANGED << failedStage, requestsAtFailure >>

\* data = request.json ... if not vod_url: return ... 400
Validate ==
    /\ pc = "start"
    /\ IF Falsy(request.vod_url)
       THEN /\ response' = ValidationFailed
            /\ pc' = "done"
       ELSE /\ pc' = "resolve"
            /\ UNCHANGED response
    /\ UNCHANGED << impl, request, audio_url, audio_path, transcript_id,
                    transcript, clips, tempFile, stages, resolveCalls,
                    submitRequests, genRequests, genAnswer, failedStage,
                    requestsAtFailure >>

(* ---- src/app.py *)

\* audio_url = extract_audio_url(vod_url)
ExtractAudioUrl ==
    /\ impl = "url" /\ pc = "resolve"
    /\ request.endpoint # "get-audio-url"
    /\ resolveCalls' = resolveCalls + 1
    /\ stages' = Append(stages, "Resolving")
    /\ \E ok \in BOOLEAN :
         IF ok
         THEN /\ audio_url' = "https://x/audio.mp3"
              /\ pc' = "submit"
              /\ NoFail
              /\ UNCHANGED response
         ELSE /\ response' = Caught(ResolutionFailed)
              /\ pc' = "done"
              /\ Fail("Resolving", Requested + 1)
              /\ UNCHANGED audio_url
    /\ UNCHANGED << impl, request, audio_path, transcript_id, transcript, clips,
                    tempFile, submitRequests, genRequests, genAnswer >>

\* what POST /v2/transcript can produce
SubmitResponses ==
    { [code |-> 0, id |-> "None"], [code |-> 500, id |-> "None"],
      [code |-> 200, id |-> "job-1"] }

\* transcript_id = submit_transcription(audio_url)
SubmitTranscription ==
    /\ impl = "url" /\ pc = "submit"
    /\ submitRequests' = submitRequests + 1
    /\ stages' = Append(stages, "Transcribing")
    /\ \E r \in SubmitResponses :
         IF r.code = 200
         THEN /\ transcript_id' = r.id
              /\ pc' = "poll"
              /\ NoFail
              /\ UNCHANGED response
         ELSE /\ response' = Caught(HTTPError(r))
              /\ pc' = "done"
              /\ Fail("Transcribing", Requested + 1)
              /\ UNCHANGED transcript_id
    /\ UNCHANGED << impl, request, audio_url, audio_path, transcript, clips,
                    tempFile, resolveCalls, genRequests, genAnswer >>

\* transcript_data = poll_transcription(transcript_id)
CallPoll ==
    /\ impl = "url" /\ pc = "poll"
    /\ PollEnter(DefaultTimeout)

\* (variant: only the text of the transcript is tested for emptiness)
AfterPollTextOnly(pp, data) ==
    IF pp = "raised" THEN "except"
    ELSE IF data.text = << >> THEN "empty"
    ELSE "segment"

\* (variant: an exception of poll is swallowed and the run goes on)
AfterPollSwallows(pp, data) ==
    IF pp = "returned" /\ (data.text = << >> \/ data.words = << >>) THEN "empty"
    ELSE "segment"
\* where the handler goes when poll_transcription is over: the except clause,
\* the empty-transcript return, or step 4
AfterPoll(pp, data) ==
    IF pp = "raised" THEN "except"
    ELSE IF data.text = << >> \/ data.words = << >> THEN "empty"
    ELSE "segment"

\* lines 248-261: poll is over
PollOver ==
    /\ impl = "url" /\ pc = "poll"
    /\ request.endpoint = "extract-clips"
    /\ PollEnded
    /\ LET to == AfterPoll(pollPc, pollResult) IN
       /\ transcript' = IF pollPc = "returned" THEN pollResult ELSE transcript
       /\ response' = CASE to = "except" -> Caught(pollError)
                        [] to = "empty" -> EmptyTranscript
                        [] OTHER -> response
       /\ pc' = IF to = "segment" THEN "segment" ELSE "done"
       /\ IF to = "except" THEN Fail("Transcribing", Requested) ELSE NoFail
       /\ IF to = "segment"
          THEN /\ SegEnter(pollResult.words)
               /\ stages' = Append(stages, "Segmenting")
          ELSE UNCHANGED << segVars, stages >>
    /\ UNCHANGED << impl, request, audio_url, audio_path, transcript_id, clips,
                    tempFile, resolveCalls, submitRequests, genRequests,
                    genAnswer >>

\* POST /api/transcribe, lines 297-305: poll is over; the transcript is
\* returned whatever it holds
TranscribeOnlyOver ==
    /\ impl = "url" /\ pc = "poll"
    /\ request.endpoint = "transcribe"
    /\ PollEnded
    /\ IF pollPc = "returned"
       THEN /\ transcript' = pollResult
            /\ response' = SuccessTranscribe(transcript_id, pollResult)
            /\ NoFail
       ELSE /\ response' = Caught(pollError)
            /\ Fail("Transcribing", Requested)
            /\ UNCHANGED transcript
    /\ pc' = "done"
    /\ UNCHANGED << impl, request, audio_url, audio_path, transcript_id, clips,
                    tempFile, stages, resolveCalls, submitRequests, genRequests,
                    genAnswer >>

\* POST /api/get-audio-url, lines 323-329: the resolution and the response
GetAudioUrl ==
    /\ impl = "url" /\ pc = "resolve"
    /\ request.endpoint = "get-audio-url"
    /\ resolveCalls' = resolveCalls + 1
    /\ stages' = Append(stages, "Resolving")
    /\ \E ok \in BOOLEAN :
         IF ok
         THEN /\ audio_url' = "https://x/audio.mp3"
              /\ response' = SuccessAudioUrl(request, "https://x/audio.mp3")
              /\ NoFail
         ELSE /\ response' = Caught(ResolutionFailed)
              /\ Fail("Resolving", Requested + 1)
              /\ UNCHANGED audio_url
    /\ pc' = "done"
    /\ UNCHANGED << impl, request, audio_path, transcript_id, transcript, clips,
                    tempFile, submitRequests, genRequests, genAnswer >>

\* lines 138-196 and 262-271: the request to the text-generation service,
\* the parse of its content, the success response
IdentifyClips ==
    /\ impl = "url" /\ pc = "segment" /\ segPc = "done"
    /\ genRequests' = genRequests + 1
    /\ stages' = Append(stages, "Identifying")
    /\ \E r \in GenResponses :
         LET parsed == JsonLoads(StripFences(r.content)) IN
         /\ genAnswer' = r
         /\ IF r.code # 200
            THEN /\ response' = Caught(HTTPError(r))
                 /\ Fail("Identifying", Requested + 1)
                 /\ UNCHANGED clips
            ELSE IF parsed.kind = "error"
            THEN /\ response' = Caught(JSONDecodeError)
                 /\ NoFail
                 /\ UNCHANGED clips
            ELSE /\ clips' = parsed
                 /\ response' = SuccessUrl(request, audio_url, transcript_id,
                                           transcript.text, parsed)
                 /\ NoFail
    /\ pc' = "done"
    /\ UNCHANGED << impl, request, audio_url, audio_path, transcript_id,
                    transcript, tempFile, resolveCalls, submitRequests >>

(* ---- src/unnamed/part_000 *)

ExtractionFailed ==
    [cls |-> "Exception", msg |-> << "Failed to extract audio: ", "stderr" >>]
ExtractionTimedOut ==
    [cls |-> "Exception", msg |-> << "Audio extraction timed out - VOD may be too long" >>]
ExtractionEmpty ==
    [cls |-> "Exception", msg |-> << "Audio file was not created or is empty" >>]

\* audio_path = extract_audio(vod_url): the temporary file is created, then
\* yt-dlp runs
ExtractAudio ==
    /\ impl = "file" /\ pc = "resolve"
    /\ resolveCalls' = resolveCalls + 1
    /\ stages' = Append(stages, "Resolving")
    /\ tempFile' = "exists"
    /\ \E out \in {"ok", "returncode", "timeout", "empty"} :
         IF out = "ok"
         THEN /\ audio_path' = "/tmp/audio.mp3"
              /\ pc' = "transcribe"
              /\ NoFail
              /\ UNCHANGED response
         ELSE /\ response' = Caught(CASE out = "returncode" -> ExtractionFailed
                                      [] out = "timeout" -> ExtractionTimedOut
                                      [] OTHER -> ExtractionEmpty)
              /\ pc' = "done"
              /\ Fail("Resolving", Requested + 1)
              /\ UNCHANGED audio_path
    /\ UNCHANGED << impl, request, audio_url, transcript_id, transcript, clips,
                    submitRequests, genRequests, genAnswer >>

\* what transcriber.transcribe(audio_path) can produce: an exception of the
\* SDK, a transcript in status error, a completed transcript
SdkResults ==
    { [status |-> "raise", error |-> "absent", data |-> NoData],
      [status |-> "error", error |-> "bad audio", data |-> NoData] }
      \cup { [status |-> "completed", error |-> "absent", data |-> p] : p \in Payloads }

\* raise Exception(f"Transcription failed: {str(e)}")
TranscribeFailed(r) ==
    [cls |-> "Exception",
     msg |-> IF r.status = "raise"
             THEN << "Transcription failed: ", "sdk error" >>
             ELSE << "Transcription failed: ", "Transcription failed: ", r.error >>]

\* transcript_result = transcribe_audio(audio_path)
TranscribeAudio ==
    /\ impl = "file" /\ pc = "transcribe"
    /\ submitRequests' = submitRequests + 1
    /\ stages' = Append(stages, "Transcribing")
    /\ \E r \in SdkResults :
         IF r.status = "completed"
         THEN /\ transcript_id' = "job-1"
              /\ audio_url' = "https://cdn/upload/1"
              /\ transcript' = r.data
              /\ pc' = "identify"
              /\ NoFail
              /\ UNCHANGED response
         ELSE /\ response' = Caught(TranscribeFailed(r))
              /\ pc' = "done"
              /\ Fail("Transcribing", Requested + 1)
              /\ UNCHANGED << transcript_id, audio_url, transcript >>
    /\ UNCHANGED << impl, request, audio_path, clips, tempFile, resolveCalls,
                    genRequests, genAnswer >>

\* find_viral_clips: the value returned for an answer of the service; both
\* except clauses return []
FindViralClipsResult(r) ==
    IF r.code # 200 THEN EmptyList
    ELSE LET parsed == JsonLoads(StripFences(r.content)) IN
         IF parsed.kind = "error" THEN EmptyList ELSE parsed

\* lines 55-70: find_viral_clips, the removal of the temporary file, the
\* success response
FindViralClips ==
    /\ impl = "file" /\ pc = "identify"
    /\ genRequests' = genRequests + 1
    /\ stages' = Append(stages, "Identifying")
    /\ \E r \in GenResponses :
         LET res == FindViralClipsResult(r) IN
         /\ genAnswer' = r
         /\ IF r.code # 200 THEN Fail("Identifying", Requested + 1) ELSE NoFail
         /\ clips' = res
         /\ tempFile' = "removed"
         /\ response' = SuccessFile(request, audio_url, transcript_id,
                                    transcript.text, res)
    /\ pc' = "done"
    /\ UNCHANGED << impl, request, audio_url, audio_path, transcript_id,
                    transcript, resolveCalls, submitRequests >>

-----------------------------------------------------------------------------
(* SpecSeg: the segmentation on bounded word lists *)

SegInputs ==
    { MkWords(n, s0, gap, dur) :
        n \in 0..MaxWords, s0 \in {0, 7}, gap \in {0, 3}, dur \in {0, 4} }

InitSeg ==
    /\ PollInitValues
    /\ PipeInitValues
    /\ segPc = "loop"
    /\ words_with_timestamps \in SegInputs
    /\ i = 0
    /\ timestamped_sections = SegStart.sections
    /\ current_section = SegStart.current_section
    /\ section_start = SegStart.section_start

NextSeg ==
    \/ SegIter /\ UNCHANGED << pollVars, pipeVars >>
    \/ SegEnd /\ UNCHANGED << pollVars, pipeVars >>

SpecSeg == InitSeg /\ [][NextSeg]_vars

CeilDiv(a, b) == (a + b - 1) \div b

\* C8: for L words the segmentation gives ceil(L / WindowSize) sections (none
\* for no words); every section but the last holds exactly WindowSize words
\* and the last holds 1..WindowSize.
C8_SectionCount ==
    segPc = "done" =>
      LET L == Len(words_with_timestamps)
          S == timestamped_sections
      IN /\ Len(S) = CeilDiv(L, WindowSize)
         /\ \A k \in 1..Len(S) :
              LET c == WordCount(S[k].text) IN
              IF k < Len(S) THEN c = WindowSize ELSE c \in 1..WindowSize

C8_Witness ==
    /\ segPc = "done"
    /\ Len(words_with_timestamps) = 2 * WindowSize + 20
    /\ Len(timestamped_sections) = 3
    /\ WordCount(timestamped_sections[3].text) = 20

\* C9: every section's start_ms is the start of its first word and its
\* end_ms the end of its last word.
C9_SectionBounds ==
    segPc = "done" =>
      LET L == Len(words_with_timestamps)
          S == timestamped_sections
      IN \A k \in 1..Len(S) :
           /\ S[k].start_ms = words_with_timestamps[(k - 1) * WindowSize + 1].start
           /\ S[k].end_ms = words_with_timestamps[Min(k * WindowSize, L)].end

\* C10: the section texts joined with single spaces are the word texts joined
\* with single spaces: every word once, in order.
C10_RoundTrip ==
    segPc = "done" =>
      Join([k \in 1..Len(timestamped_sections) |-> timestamped_sections[k].text],
           << SP >>)
        = Join([k \in 1..Len(words_with_timestamps) |-> words_with_timestamps[k].text],
               << SP >>)

C10_Witness ==
    /\ segPc = "done"
    /\ Len(words_with_timestamps) = 2 * WindowSize + 1
    /\ Len(timestamped_sections) = 3
    /\ timestamped_sections[3].text = words_with_timestamps[2 * WindowSize + 1].text

-----------------------------------------------------------------------------
(* SpecPoll: one direct call poll_transcription(transcript_id, timeout) *)

Timeouts == {-PollInterval, 0, 2 * PollInterval + 2, DefaultTimeout}

PollCall == \E to \in Timeouts : PollEnter(to)

InitPoll == PollInitValues /\ SegInitValues /\ PipeInitValues

NextPoll ==
    \/ PollCall /\ UNCHANGED << segVars, pipeVars >>
    \/ PollCheck /\ UNCHANGED << segVars, pipeVars >>
    \/ PollSleep /\ UNCHANGED << segVars, pipeVars >>
    \/ PollTimeout /\ UNCHANGED << segVars, pipeVars >>

SpecPoll == InitPoll /\ [][NextPoll]_vars

\* the call is made, every status request returns and the thread of the
\* handler keeps running: no step of the call that can be taken is put off
\* for ever
SpecPollFair == SpecPoll /\ WF_vars(NextPoll)

\* the most status requests a call with timeout to can issue
MaxStatusRequests(to) == IF to <= 0 THEN 0 ELSE CeilDiv(to, PollInterval)

\* how a call of poll_transcription ended
PollEnding ==
    { e \in {"completed", "failed", "http", "timeout"} :
        CASE e = "completed" -> pollPc = "returned"
          [] e = "failed" ->
               pollPc = "raised" /\ pollError.msg[1] = "Transcription failed: "
          [] e = "http" -> pollPc = "raised" /\ pollError.msg[1] = "http"
          [] e = "timeout" -> pollPc = "raised" /\ pollError = TranscriptionTimedOut }

\* C19: every call of poll_transcription ends, whatever the service answers:
\* with the completed transcript returned, the transcription-failed error,
\* the error of a failed request, or the timeout error, exactly one of them;
\* and it issues at most ceil(timeout / PollInterval) status requests, none
\* when the timeout is zero or negative.
C19_PollTerminates ==
    /\ <>[]PollEnded
    /\ [](statusRequests <= MaxStatusRequests(timeout))
    /\ [](PollEnded => Cardinality(PollEnding) = 1)

C19_Witness ==
    /\ pollPc = "raised"
    /\ pollError = TranscriptionTimedOut
    /\ timeout = 2 * PollInterval + 2
    /\ statusRequests = 3

\* C17: within one call of poll_transcription, exactly one suspension of
\* PollInterval seconds lies between any two consecutive status requests: a
\* status request other than the first is issued only from a state where one
\* sleep of PollInterval seconds has happened since the request before, so
\* two requests are never less than PollInterval seconds apart, and no sleep
\* happens before the first request.
C17_OneSleepBetweenRequests ==
    /\ (pollPc = "guard" /\ statusRequests = 0) => (sleeps = 0 /\ sleptFor = 0)
    /\ (pollPc = "guard" /\ statusRequests > 0)
         => /\ sleeps = statusRequests
            /\ sleptFor = PollInterval
            /\ elapsed >= statusRequests * PollInterval
    /\ pollPc = "sleep" => (sleeps = statusRequests - 1 /\ sleptFor = 0)
    /\ sleeps \in {statusRequests - 1, statusRequests} \cup {0}

C17_Witness ==
    /\ pollPc = "sleep"
    /\ statusRequests = 4
    /\ sleeps = 3
    /\ timeout = DefaultTimeout

-----------------------------------------------------------------------------
(* Spec: one request to an endpoint that takes a vod_url *)

Init ==
    /\ PollInitValues
    /\ SegInitValues
    /\ impl \in Impls
    /\ pc = "start"
    /\ request \in Requests
    /\ impl = "file" => request.endpoint = "extract-clips"
    /\ audio_url = "None"
    /\ audio_path = "None"
    /\ transcript_id = "None"
    /\ transcript = NoData
    /\ clips = NoClips
    /\ response = NoResponseYet
    /\ tempFile = "none"
    /\ stages = << >>
    /\ resolveCalls = 0
    /\ submitRequests = 0
    /\ genRequests = 0
    /\ genAnswer = [code |-> -1, content |-> << >>]
    /\ failedStage = "none"
    /\ requestsAtFailure = 0

Next ==
    \/ Validate /\ UNCHANGED << pollVars, segVars >>
    \/ ExtractAudioUrl /\ UNCHANGED << pollVars, segVars >>
    \/ SubmitTranscription /\ UNCHANGED << pollVars, segVars >>
    \/ CallPoll /\ UNCHANGED << segVars, pipeVars >>
    \/ pc = "poll" /\ PollCheck /\ UNCHANGED << segVars, pipeVars >>
    \/ pc = "poll" /\ PollSleep /\ UNCHANGED << segVars, pipeVars >>
    \/ pc = "poll" /\ PollTimeout /\ UNCHANGED << segVars, pipeVars >>
    \/ PollOver /\ UNCHANGED pollVars
    \/ TranscribeOnlyOver /\ UNCHANGED << pollVars, segVars >>
    \/ GetAudioUrl /\ UNCHANGED << pollVars, segVars >>
    \/ pc = "segment" /\ SegIter /\ UNCHANGED << pollVars, pipeVars >>
    \/ pc = "segment" /\ SegEnd /\ UNCHANGED << pollVars, pipeVars >>
    \/ IdentifyClips /\ UNCHANGED << pollVars, segVars >>
    \/ ExtractAudio /\ UNCHANGED << pollVars, segVars >>
    \/ TranscribeAudio /\ UNCHANGED << pollVars, segVars >>
    \/ FindViralClips /\ UNCHANGED << pollVars, segVars >>

Spec == Init /\ [][Next]_vars

-----------------------------------------------------------------------------
(* Properties of the extract-clips run, checked under Spec *)

IsPrefix(s, t) == Len(s) <= Len(t) /\ SubSeq(t, 1, Len(s)) = s

\* C4: the stages start in the order Resolving, Transcribing, Segmenting,
\* Identifying, each only with the output of the one before: no submit before
\* the audio is resolved, no status check before submit returned a job id, no
\* segmenting and no text-generation request before the transcription
\* returned a completed transcript.
C4_StageOrder ==
    /\ IsPrefix(stages, StageOrder(impl))
    /\ submitRequests > 0 =>
         IF impl = "url" THEN audio_url # "None" ELSE audio_path # "None"
    /\ statusRequests > 0 => transcript_id # "None"
    /\ Len(stages) >= 3 => transcript \in Payloads
    /\ (impl = "url" /\ Len(stages) >= 3) =>
         (pollPc = "returned" /\ transcript = pollResult)
    /\ genRequests > 0 =>
         /\ transcript \in Payloads
         /\ impl = "url" =>
              (segPc = "done" /\ words_with_timestamps = transcript.words)

C4_Witness ==
    /\ pc = "done"
    /\ impl = "url"
    /\ stages = StageOrder("url")
    /\ statusRequests = 4
    /\ response.code = 200

PartialFields == {"audio_url", "transcript_id", "transcript_text", "clips"}

\* C5: once a stage has failed (resolve error, submit HTTP error, poll
\* error/timeout/HTTP error, text-generation transport error) the run is
\* over, no further request is issued, and the response is an error response
\* with a message, a non-2xx status and no partial result field.
C5_FailureEndsInFailed ==
    failedStage # "none" =>
      /\ pc = "done"
      /\ Requested = requestsAtFailure
      /\ response.code \notin 200..299
      /\ response.body.status = "error"
      /\ "message" \in DOMAIN response.body
      /\ DOMAIN response.body \cap PartialFields = {}

\* C6: when the text-generation service answers 200 with a content that,
\* fences stripped, is not a JSON array, the run still ends in a success
\* response with the transcript fields and an empty clip list.
C6_UnparsableGivesEmptyClips ==
    ( /\ pc = "done"
      /\ genAnswer.code = 200
      /\ JsonLoads(StripFences(genAnswer.content)).kind # "array" )
    => /\ response.code = 200
       /\ response.body.status = "success"
       /\ PartialFields \subseteq DOMAIN response.body
       /\ response.body.clips = EmptyList

\* the ClipCandidate field constraints
ValidClip(c) ==
    /\ c.start_ms >= 0
    /\ c.end_ms > c.start_ms
    /\ c.virality_score \in 1..10
    /\ Len(c.title) <= MaxTitleLen

\* C7: for an answer parsed as an array, the clips returned are exactly the
\* elements that satisfy the ClipCandidate constraints, in the order of the
\* answer.
C7_OnlyValidClipsReturned ==
    ( /\ pc = "done"
      /\ genAnswer.code = 200
      /\ JsonLoads(StripFences(genAnswer.content)).kind = "array" )
    => /\ response.code = 200
       /\ response.body.clips.kind = "array"
       /\ response.body.clips.items =
            SelectSeq(JsonLoads(StripFences(genAnswer.content)).items, ValidClip)

\* the run ended in a success response that carries clips
SucceededWithClips ==
    /\ pc = "done"
    /\ response.code = 200
    /\ response.body.status = "success"
    /\ clips.kind # "none"

\* C12: in every success response of extract-clips the clips are ordered by
\* virality_score, highest first, whatever content the text-generation
\* service returned.
C12_ClipsSortedByScore ==
    (SucceededWithClips /\ response.body.clips.kind = "array") =>
      LET cl == response.body.clips.items IN
      \A j \in 1..Len(cl), k \in 1..Len(cl) :
          j < k => cl[j].virality_score >= cl[k].virality_score

\* C13: the list returned by the identification has at most num_clips
\* elements.
C13_AtMostNumClips ==
    (pc = "done" /\ clips.kind = "array") => Len(clips.items) <= request.num_clips

\* C14: transcript_text of a success response is the prefix of the full
\* transcript of length min(PreviewLen, length of the transcript).
C14_PreviewCapped ==
    SucceededWithClips =>
      LET shown == response.body.transcript_text
          full == transcript.text
      IN /\ Len(shown) <= PreviewLen
         /\ Len(shown) = Min(PreviewLen, Len(full))
         /\ IsPrefix(shown, full)

\* C15: in the implementation that downloads the audio to a temporary file,
\* the file does not exist any more when the request has finished, on the
\* success path and on every failure path.
C15_TempFileRemoved ==
    (impl = "file" /\ pc = "done") => tempFile # "exists"

\* C16: a request to extract-clips, transcribe or get-audio-url whose vod_url
\* is missing, null or empty ends in a 4xx error response, and no stage is
\* ever started for it: no resolution, no transcription request, no
\* text-generation request, no temporary file.
C16_NoVodUrlIsRefused ==
    request.vod_url \in {"None", ""} =>
      /\ pc \in {"start", "done"}
      /\ stages = << >>
      /\ Requested = 0
      /\ tempFile = "none"
      /\ pc = "done" => /\ response.code \in 400..499
                        /\ response.body.status = "error"

C16_Witness ==
    /\ pc = "done"
    /\ request.endpoint = "transcribe"
    /\ request.vod_url = ""
    /\ response = ValidationFailed
    /\ Requested = 0

\* C18: for a content that is a JSON array, the identification gives the
\* same list whether the array comes bare, in json code fences or in plain
\* code fences, with or without whitespace around: the list of the objects
\* of the array, in order, which is what the bare array parses to; and the
\* stripping leaves the bare array unchanged.
C18_FencesDoNotMatter ==
    (pc = "done" /\ genAnswer.code = 200) =>
      \A toks \in SeqsUpTo(ObjectTokens, MaxClips) :
         LET bare == ArrayText(toks) IN
         genAnswer.content \in Wrapped(bare) =>
           /\ clips = [kind |-> "array",
                       items |-> [k \in 1..Len(toks) |-> ClipOf(toks[k])]]
           /\ clips = JsonLoads(bare)
           /\ response.code = 200
           /\ response.body.clips = clips
           /\ StripFences(bare) = bare

C18_Witness ==
    /\ pc = "done"
    /\ impl = "url"
    /\ genAnswer.code = 200
    /\ genAnswer.content =
         << SP, FENCE, "json", SP >> \o ArrayText(<< "A", "B" >>) \o << SP, FENCE, SP >>
    /\ response.code = 200
    /\ response.body.clips.items = << ClipOf("A"), ClipOf("B") >>

\* C20: in src/app.py, an extract-clips run whose transcription completed
\* with an empty text or an empty word list ends in the 400 error response
\* without a text-generation request; and whenever the text-generation
\* request has been issued, the word list given to the segmentation and the
\* transcript text are not empty.
C20_EmptyTranscriptIsRefused ==
    (impl = "url" /\ request.endpoint = "extract-clips") =>
      /\ ( /\ pc \notin {"start", "resolve", "submit", "poll"}
           /\ pollPc = "returned"
           /\ (pollResult.text = << >> \/ pollResult.words = << >>) )
         => /\ pc = "done"
            /\ response.code = 400
            /\ response.body.status = "error"
            /\ genRequests = 0
            /\ segPc = "idle"
      /\ genRequests > 0
         => /\ words_with_timestamps # << >>
            /\ words_with_timestamps = pollResult.words
            /\ transcript.text # << >>

C20_Witness ==
    /\ impl = "url"
    /\ request.endpoint = "extract-clips"
    /\ pc = "done"
    /\ pollPc = "returned"
    /\ pollResult.text # << >>
    /\ pollResult.words = << >>
    /\ response = EmptyTranscript
    /\ genRequests = 0

\* C11: no retry: a run issues at most one transcription submit and at most
\* one text-generation request, whatever the remote calls answer; a failed
\* submit ends the run, and a failed status check is the last status request
\* (every status request before the latest was answered queued/processing).
C11_NoRetry ==
    /\ submitRequests <= 1
    /\ genRequests <= 1
    /\ statusRequests <= nonTerminal + 1
    /\ (statusRequests > 0 /\ lastResponse.code # 200)
         => (pollPc = "raised" /\ pollError = HTTPError(lastResponse))
    /\ (failedStage = "Transcribing" /\ statusRequests = 0)
         => (pc = "done" /\ submitRequests = 1 /\ genRequests = 0)

C11_Witness ==
    /\ pc = "done"
    /\ impl = "url"
    /\ failedStage = "Transcribing"
    /\ lastResponse.code = 500
    /\ statusRequests = 3
    /\ submitRequests = 1
    /\ genRequests = 0

-----------------------------------------------------------------------------
(* Properties of poll_transcription, checked under SpecPoll *)

\* C1: when the first k status checks are answered queued/processing and
\* check k+1 is answered completed, poll has issued exactly k+1 status
\* requests (3 processing then completed: 4) and returns the payload of that
\* last check, with nothing issued after it.
C1_ReturnsAtFirstCompleted ==
    /\ (lastResponse.code = 200 /\ lastResponse.status = "completed")
         => /\ pollPc = "returned"
            /\ statusRequests = nonTerminal + 1
            /\ pollResult = lastResponse.data
            /\ ~afterTerminal
    /\ pollPc = "returned"
         => (lastResponse.code = 200 /\ lastResponse.status = "completed")

C1_Witness ==
    /\ pollPc = "returned"
    /\ timeout = DefaultTimeout
    /\ nonTerminal = 3
    /\ statusRequests = 4
    /\ pollResult \in Payloads

\* C2: no status request is issued once the elapsed time has reached the
\* timeout ceiling, and a poll that ended after only non-terminal answers
\* ended with the timeout error.
C2_TimeoutAndNoRequestAtCeiling ==
    /\ ~requestAtCeiling
    /\ (PollEnded /\ nonTerminal = statusRequests)
         => (pollPc = "raised" /\ pollError = TranscriptionTimedOut)

C2_Witness ==
    /\ pollPc = "raised"
    /\ pollError = TranscriptionTimedOut
    /\ timeout = DefaultTimeout
    /\ statusRequests > 0
    /\ nonTerminal = statusRequests

\* C3: a status answer of error ends poll at once with the failed error,
\* whose message carries the upstream error and differs from the timeout
\* error's; no status request and no sleep follows that answer.
C3_ErrorStatusFailsAtOnce ==
    /\ ~afterTerminal
    /\ (lastResponse.code = 200 /\ lastResponse.status = "error")
         => /\ pollPc = "raised"
            /\ pollError.msg[1] = "Transcription failed: "
            /\ lastResponse.error # "absent" => pollError.msg[2] = lastResponse.error
            /\ pollError.msg # TranscriptionTimedOut.msg
            /\ sleeps = statusRequests - 1

C3_Witness ==
    /\ pollPc = "raised"
    /\ lastResponse.status = "error"
    /\ lastResponse.error = "bad audio"
    /\ pollError = TranscriptionFailed(lastResponse)
    /\ statusRequests = 3

=============================================================================
